---- MODULE Spec2Model ----
(***************************************************************************)
(* A model of mlflow/projects/docker.py: the image tag deriver             *)
(* (_get_docker_image_uri), the tracking endpoint translator               *)
(* (get_docker_tracking_cmd_and_envs, _get_local_uri_or_none) and the      *)
(* build path (build_docker_image, _create_docker_build_ctx).              *)
(*                                                                         *)
(* Python strings are sequences.  Revision identifiers and repository      *)
(* URIs are sequences of one-character strings.  Tracking URIs are         *)
(* sequences of lexical tokens: a token is either a word made only of      *)
(* scheme characters, or one of the delimiters ":", "/", "?", or the       *)
(* percent escape "%20".  No token is a substring of a concatenation of    *)
(* other tokens, so two token sequences are equal exactly when the         *)
(* strings they spell are equal.                                           *)
(***************************************************************************)
EXTENDS Integers, Sequences, FiniteSets, TLC

(* ---------------------------------------------------------------------- *)
(* Bounds of the model.                                                    *)
(* ---------------------------------------------------------------------- *)
MaxCommitLen == 8
MaxRepoLen == 2
MaxUriLen == 5
NumCalls == 2
MaxTmpNames == 2

(* ---------------------------------------------------------------------- *)
(* Program constants.                                                      *)
(* ---------------------------------------------------------------------- *)
_GENERATED_DOCKERFILE_NAME == "Dockerfile.mlflow-autogenerated"
_MLFLOW_DOCKER_TRACKING_DIR_PATH == <<"/mlflow/tmp/mlruns">>
_PROJECT_TAR_ARCHIVE_NAME == "mlflow-project-docker-build-context"
DEFAULT_REPOSITORY_URI == <<"d", "o", "c", "k", "e", "r", "-", "p", "r", "o", "j", "e", "c", "t">>
GIT_SHA_DIGITS == 7
_TRACKING_URI_ENV_VAR == "MLFLOW_TRACKING_URI"
DATABRICKS_URI == <<"databricks">>
MLFLOW_DOCKER_WORKDIR_PATH == "/mlflow/projects/code/"
MLFLOW_DOCKER_IMAGE_URI == "mlflow.docker.image.uri"
MLFLOW_DOCKER_IMAGE_ID == "mlflow.docker.image.id"

(* Python's None, as a value that can be compared with any string *)
None == <<"None">>

VARIABLES
    (* image tag deriver *)
    tag_pc, repository_uri, git_commit, tag_result,
    (* tracking endpoint translator *)
    trk_pc, tracking_uri, provider_env, cmds, env_vars,
    (* build_docker_image, one entry per invocation *)
    pc, work_dir, image_uri, directory, result_path, pending, error, result, log,
    tags, engine_calls,
    (* the temporary area of the file system *)
    dirs, files

tagVars == <<tag_pc, repository_uri, git_commit, tag_result>>
trkVars == <<trk_pc, tracking_uri, provider_env, cmds, env_vars>>
callVars == <<pc, work_dir, image_uri, directory, result_path, pending, error, result, log,
              tags, engine_calls>>
fsVars == <<dirs, files>>
vars == <<tagVars, trkVars, callVars, fsVars>>

(* All sequences over S of length lo..hi. *)
SeqsOf(S, lo, hi) == UNION {[1..n -> S] : n \in lo..hi}

(* ====================================================================== *)
(* 4.1 Image tag deriver                                                   *)
(* ====================================================================== *)
RepoChars == {"r", "/"}
HexChars == {"a", "0"}

(* s[:n] of Python: the first n elements, the whole of s when shorter. *)
Prefix(s, n) == SubSeq(s, 1, IF Len(s) < n THEN Len(s) ELSE n)

(* The version-control query: a revision identifier, or None when the
   working directory has no revision. *)
_get_git_commit == {None} \cup SeqsOf(HexChars, 1, MaxCommitLen)

SlicesOneMore(commit) == Prefix(commit, GIT_SHA_DIGITS + 1)

ShortRevision(commit) == Prefix(commit, GIT_SHA_DIGITS)

RepositoryPrefix(repo) == IF repo # <<>> THEN repo ELSE DEFAULT_REPOSITORY_URI

_get_docker_image_uri(repo, commit) ==
    LET prefix == RepositoryPrefix(repo)
        version_string == IF commit # None THEN <<":">> \o ShortRevision(commit) ELSE <<>>
    IN  prefix \o version_string

TagInit ==
    /\ tag_pc = "call"
    /\ repository_uri \in SeqsOf(RepoChars, 0, MaxRepoLen)
    /\ git_commit \in _get_git_commit
    /\ tag_result = <<>>

TagIdle ==
    /\ tag_pc = "idle"
    /\ repository_uri = <<>>
    /\ git_commit = None
    /\ tag_result = <<>>

DeriveTag ==
    /\ tag_pc = "call"
    /\ tag_result' = _get_docker_image_uri(repository_uri, git_commit)
    /\ tag_pc' = "returned"
    /\ UNCHANGED <<repository_uri, git_commit>>

(* ====================================================================== *)
(* 4.3 Tracking endpoint translator                                        *)
(* ====================================================================== *)
SchemeWords == {"file", "sqlite", "FILE", "databricks", "x"}
UriTokens == SchemeWords \cup {":", "/", "?", "%20"}

(* str.lower() on a token *)
Lower(tok) == IF tok = "FILE" THEN "file" ELSE tok

(* str.find: the first position of tok in s at or after from, 0 when absent *)
Find(s, tok, from) ==
    LET hits == {i \in from..Len(s) : s[i] = tok}
    IN  IF hits = {} THEN 0 ELSE CHOOSE i \in hits : \A j \in hits : i <= j

Tail2(s, i) == SubSeq(s, i, Len(s))

(* urllib.parse.urlparse, as far as scheme, netloc and path go: the scheme
   is what precedes the first ":" when that is a non-empty run of scheme
   characters (lower-cased); a rest that begins with "//" has a netloc
   running to the next "/" or "?"; the path ends at the first "?". *)
HasScheme(url, i) == i > 1 /\ \A k \in 1..(i - 1) : url[k] \in SchemeWords

LowerAll(s) == [k \in 1..Len(s) |-> Lower(s[k])]

StartsWithSlashes(rest) == Len(rest) >= 2 /\ rest[1] = "/" /\ rest[2] = "/"

(* the end of the netloc: the first of the delimiters found, else the end *)
FirstDelim(slash, qmark, len) ==
    IF slash = 0 /\ qmark = 0 THEN len + 1
    ELSE IF slash = 0 THEN qmark
    ELSE IF qmark = 0 THEN slash
    ELSE IF slash < qmark THEN slash ELSE qmark

StripQuery(s, q) == IF q = 0 THEN s ELSE SubSeq(s, 1, q - 1)

ParseResult(scheme, netloc, rest) ==
    [scheme |-> scheme, netloc |-> netloc, path |-> StripQuery(rest, Find(rest, "?", 1))]

SplitNetloc(scheme, rest, delim) ==
    ParseResult(scheme, SubSeq(rest, 3, delim - 1), Tail2(rest, delim))

ParseRest(scheme, rest) ==
    IF StartsWithSlashes(rest)
    THEN SplitNetloc(scheme, rest,
                     FirstDelim(Find(rest, "/", 3), Find(rest, "?", 3), Len(rest)))
    ELSE ParseResult(scheme, <<>>, rest)

SplitScheme(url, i) ==
    IF HasScheme(url, i)
    THEN ParseRest(LowerAll(SubSeq(url, 1, i - 1)), Tail2(url, i + 1))
    ELSE ParseRest(<<>>, url)

urlparse(url) == SplitScheme(url, Find(url, ":", 1))

(* urllib.request.url2pathname on POSIX: percent-decoding *)
url2pathname(path) == [k \in 1..Len(path) |-> IF path[k] = "%20" THEN " " ELSE path[k]]

(* mlflow.utils.file_utils: a local path rendered as a URI *)
path_to_local_sqlite_uri(path) == <<"sqlite", ":", "/", "/", "/">> \o path

path_to_local_file_uri(path) == <<"file", ":", "/", "/">> \o path

LocalSchemes == {<<>>, <<"file">>, <<"sqlite">>}

NoneNone == [is_none |-> TRUE, path |-> <<>>, uri |-> <<>>]

IgnoresDatabricksLiteral(uri) == FALSE

IsManagedBackend(uri) == uri = DATABRICKS_URI

IsLocalShape(parsed_uri) == parsed_uri.netloc = <<>> /\ parsed_uri.scheme \in LocalSchemes

AlwaysFileUri(parsed_uri) == path_to_local_file_uri(_MLFLOW_DOCKER_TRACKING_DIR_PATH)

RewrittenUri(parsed_uri) ==
    IF parsed_uri.scheme = <<"sqlite">>
    THEN path_to_local_sqlite_uri(_MLFLOW_DOCKER_TRACKING_DIR_PATH)
    ELSE path_to_local_file_uri(_MLFLOW_DOCKER_TRACKING_DIR_PATH)

(* docker.py:137-145 *)
LocalUriOf(parsed_uri) ==
    IF IsLocalShape(parsed_uri)
    THEN [is_none |-> FALSE,
          path |-> url2pathname(parsed_uri.path),
          uri |-> RewrittenUri(parsed_uri)]
    ELSE NoneNone

_get_local_uri_or_none(uri) ==
    IF IsManagedBackend(uri) THEN NoneNone ELSE LocalUriOf(urlparse(uri))

EmptyDict == [k \in {} |-> <<>>]

(* dict.update: the entries of b replace and extend those of a *)
DictUpdate(a, b) ==
    [k \in DOMAIN a \cup DOMAIN b |-> IF k \in DOMAIN b THEN b[k] ELSE a[k]]

(* The platform-credential provider: some mapping of names to values. *)
get_databricks_env_vars ==
    { EmptyDict,
      [k \in {"DATABRICKS_HOST"} |-> <<"host">>],
      [k \in {_TRACKING_URI_ENV_VAR, "DATABRICKS_HOST"} |->
            IF k = _TRACKING_URI_ENV_VAR THEN DATABRICKS_URI ELSE <<"host">>] }

(* docker.py:126-128 *)
MountArgs(local) ==
    IF ~local.is_none
    THEN << <<"-v">>, local.path \o <<":">> \o _MLFLOW_DOCKER_TRACKING_DIR_PATH >>
    ELSE <<>>

OwnEnvVars(local) ==
    IF ~local.is_none THEN [k \in {_TRACKING_URI_ENV_VAR} |-> local.uri] ELSE EmptyDict

CmdsAndEnvs(local, provided) ==
    [cmds |-> MountArgs(local), env_vars |-> DictUpdate(OwnEnvVars(local), provided)]

get_docker_tracking_cmd_and_envs(uri, provided) ==
    CmdsAndEnvs(_get_local_uri_or_none(uri), provided)

TrkInit ==
    /\ trk_pc = "call"
    /\ tracking_uri \in SeqsOf(UriTokens, 0, MaxUriLen)
    /\ provider_env \in get_databricks_env_vars
    /\ cmds = <<>>
    /\ env_vars = EmptyDict

TrkIdle ==
    /\ trk_pc = "idle"
    /\ tracking_uri = <<>>
    /\ provider_env = EmptyDict
    /\ cmds = <<>>
    /\ env_vars = EmptyDict

TranslateTrackingUri ==
    /\ trk_pc = "call"
    /\ cmds' = get_docker_tracking_cmd_and_envs(tracking_uri, provider_env).cmds
    /\ env_vars' = get_docker_tracking_cmd_and_envs(tracking_uri, provider_env).env_vars
    /\ trk_pc' = "returned"
    /\ UNCHANGED <<tracking_uri, provider_env>>

(* ====================================================================== *)
(* 4.2 Build context assembler and build_docker_image                      *)
(* ====================================================================== *)
Calls == 1..NumCalls
TmpNames == 1..MaxTmpNames
NoName == 0

(* The projects a caller may pass: the working directory's tree (file name
   to contents), its repository URI, its revision and its base image. *)
Projects == {"w1", "w2"}

ProjectRank(w) == IF w = "w1" THEN 1 ELSE 2

SourceFile(w, name) == <<"data", w, name>>

SourceTree(w) ==
    IF w = "w1"
    THEN [n \in {"MLproject"} |-> SourceFile(w, n)]
    ELSE [n \in {"MLproject", _GENERATED_DOCKERFILE_NAME} |-> SourceFile(w, n)]

RepositoryUriOf(w) == IF w = "w1" THEN <<>> ELSE <<"r">>

GitCommitOf(w) == IF w = "w1" THEN None ELSE <<"a", "0", "a", "0", "a", "0", "a", "0">>

BaseImageOf(w) == IF w = "w1" THEN "python" ELSE "ubuntu"

EngineDockerfileAtRoot == <<_GENERATED_DOCKERFILE_NAME>>

(* posixpath.join(_PROJECT_TAR_ARCHIVE_NAME, _GENERATED_DOCKERFILE_NAME) *)
EngineDockerfilePath == <<_PROJECT_TAR_ARCHIVE_NAME, _GENERATED_DOCKERFILE_NAME>>

(* The generated manifest: FROM, COPY <source>/ <workdir>, WORKDIR *)
Dockerfile(base_image) ==
    <<"FROM", base_image,
      "COPY", _PROJECT_TAR_ARCHIVE_NAME, MLFLOW_DOCKER_WORKDIR_PATH,
      "WORKDIR", MLFLOW_DOCKER_WORKDIR_PATH>>

CopySource(dockerfile) == <<dockerfile[4]>>

DirEntry == <<"directory">>

(* mlflow.utils.file_utils.make_tarfile: the tree under source_dir, archived
   under the root entry archive_name *)
make_tarfile(tree, archive_name) ==
    [path \in {<<archive_name>>} \cup {<<archive_name, n>> : n \in DOMAIN tree} |->
        IF path = <<archive_name>> THEN DirEntry ELSE tree[path[2]]]

NoDir == [exists |-> FALSE, owner |-> 0, has_dst |-> FALSE, tree |-> EmptyDict]
NoFile == [exists |-> FALSE, owner |-> 0, content |-> EmptyDict]

Restrict(f, S) == [k \in S |-> f[k]]

AnyNames(table) == TmpNames

(* tempfile.mkdtemp / tempfile.mkstemp create an entry that did not exist *)
FreshNames(table) == {n \in TmpNames : ~table[n].exists}

Logged(p, op, ok) == log' = [log EXCEPT ![p] = Append(@, [op |-> op, ok |-> ok])]

Raise(p, op) ==
    /\ pc' = [pc EXCEPT ![p] = "raised"]
    /\ error' = [error EXCEPT ![p] = op]

(* What the temporary area may hold before a call: entries of other programs *)
ForeignDir == [exists |-> TRUE, owner |-> 0, has_dst |-> FALSE, tree |-> EmptyDict]
ForeignFile == [exists |-> TRUE, owner |-> 0, content |-> EmptyDict]

CallInit ==
    /\ image_uri = [p \in Calls |-> <<>>]
    /\ directory = [p \in Calls |-> NoName]
    /\ result_path = [p \in Calls |-> NoName]
    /\ pending = [p \in Calls |-> "none"]
    /\ error = [p \in Calls |-> "none"]
    /\ result = [p \in Calls |-> None]
    /\ log = [p \in Calls |-> <<>>]
    /\ tags = [p \in Calls |-> <<>>]
    /\ engine_calls = [p \in Calls |-> <<>>]

(* the one invocation of build_docker_image *)
Builder == 1

(* One invocation of build_docker_image, in a temporary area that may
   already hold entries. *)
BuildInit ==
    /\ pc = [p \in Calls |-> IF p = Builder THEN "start" ELSE "idle"]
    /\ work_dir \in [Calls -> Projects]
    /\ \A p \in Calls : p # Builder => work_dir[p] = "w1"
    /\ CallInit
    /\ dirs \in [TmpNames -> {NoDir, ForeignDir}]
    /\ files \in [TmpNames -> {NoFile, ForeignFile}]

(* Concurrent invocations of _create_docker_build_ctx *)
CtxInit ==
    /\ pc = [p \in Calls |-> "mkdtemp"]
    /\ work_dir \in [Calls -> Projects]
    (* invocations are interchangeable: take them in the order of their projects *)
    /\ \A p \in Calls, q \in Calls : p < q => ProjectRank(work_dir[p]) <= ProjectRank(work_dir[q])
    /\ CallInit
    /\ dirs = [n \in TmpNames |-> NoDir]
    /\ files = [n \in TmpNames |-> NoFile]

BuildIdle ==
    /\ pc = <<>>
    /\ work_dir = <<>>
    /\ image_uri = <<>>
    /\ directory = <<>>
    /\ result_path = <<>>
    /\ pending = <<>>
    /\ error = <<>>
    /\ result = <<>>
    /\ log = <<>>
    /\ tags = <<>>
    /\ engine_calls = <<>>
    /\ dirs = <<>>
    /\ files = <<>>

(* docker.py:57-64 *)
Begin(p) ==
    /\ pc[p] = "start"
    /\ image_uri' = [image_uri EXCEPT ![p] =
            _get_docker_image_uri(RepositoryUriOf(work_dir[p]), GitCommitOf(work_dir[p]))]
    /\ pc' = [pc EXCEPT ![p] = "mkdtemp"]
    /\ UNCHANGED <<work_dir, directory, result_path, pending, error, result, log,
                   tags, engine_calls, dirs, files>>

(* docker.py:106 *)
Mkdtemp(p) ==
    /\ pc[p] = "mkdtemp"
    /\ \/ /\ \E d \in FreshNames(dirs) :
                /\ dirs' = [dirs EXCEPT ![d] =
                        [exists |-> TRUE, owner |-> p, has_dst |-> FALSE, tree |-> EmptyDict]]
                /\ directory' = [directory EXCEPT ![p] = d]
          /\ pc' = [pc EXCEPT ![p] = "copytree"]
          /\ Logged(p, "mkdtemp", TRUE)
          /\ UNCHANGED error
       \/ /\ Raise(p, "mkdtemp")
          /\ Logged(p, "mkdtemp", FALSE)
          /\ UNCHANGED <<dirs, directory>>
    /\ UNCHANGED <<work_dir, image_uri, result_path, pending, result, tags, engine_calls, files>>

(* The finally clause is entered with the exception of the failed step pending *)
Fail(p, op) ==
    /\ pending' = [pending EXCEPT ![p] = op]
    /\ pc' = [pc EXCEPT ![p] = "rmtree"]
    /\ Logged(p, op, FALSE)

(* docker.py:108-109 *)
Copytree(p) ==
    /\ pc[p] = "copytree"
    /\ LET d == directory[p]
           src == SourceTree(work_dir[p])
       IN  \/ /\ dirs' = [dirs EXCEPT ![d].has_dst = TRUE, ![d].tree = src]
              /\ pc' = [pc EXCEPT ![p] = "write"]
              /\ Logged(p, "copytree", TRUE)
              /\ UNCHANGED pending
           \/ /\ \/ UNCHANGED dirs
                 \/ \E S \in SUBSET (DOMAIN src) :
                        /\ S # DOMAIN src
                        /\ dirs' = [dirs EXCEPT ![d].has_dst = TRUE, ![d].tree = Restrict(src, S)]
              /\ Fail(p, "copytree")
    /\ UNCHANGED <<work_dir, image_uri, directory, result_path, error, result,
                   tags, engine_calls, files>>

(* docker.py:110-111: open(..., "w") creates or replaces the file *)
WithManifest(tree, dockerfile) ==
    DictUpdate(tree, [n \in {_GENERATED_DOCKERFILE_NAME} |-> dockerfile])

WriteManifest(p) ==
    /\ pc[p] = "write"
    /\ LET d == directory[p]
       IN  \/ /\ dirs' = [dirs EXCEPT ![d].tree =
                        WithManifest(@, Dockerfile(BaseImageOf(work_dir[p])))]
              /\ pc' = [pc EXCEPT ![p] = "mkstemp"]
              /\ Logged(p, "write", TRUE)
              /\ UNCHANGED pending
           \/ /\ Fail(p, "write")
              /\ UNCHANGED dirs
    /\ UNCHANGED <<work_dir, image_uri, directory, result_path, error, result,
                   tags, engine_calls, files>>

(* docker.py:112 *)
Mkstemp(p) ==
    /\ pc[p] = "mkstemp"
    /\ \/ /\ \E f \in FreshNames(files) :
                /\ files' = [files EXCEPT ![f] =
                        [exists |-> TRUE, owner |-> p, content |-> EmptyDict]]
                /\ result_path' = [result_path EXCEPT ![p] = f]
          /\ pc' = [pc EXCEPT ![p] = "make_tarfile"]
          /\ Logged(p, "mkstemp", TRUE)
          /\ UNCHANGED pending
       \/ /\ Fail(p, "mkstemp")
          /\ UNCHANGED <<files, result_path>>
    /\ UNCHANGED <<work_dir, image_uri, directory, error, result, tags, engine_calls, dirs>>

(* docker.py:113-115 *)
MakeTarfile(p) ==
    /\ pc[p] = "make_tarfile"
    /\ \/ /\ files' = [files EXCEPT ![result_path[p]].content =
                    make_tarfile(dirs[directory[p]].tree, _PROJECT_TAR_ARCHIVE_NAME)]
          /\ pc' = [pc EXCEPT ![p] = "rmtree"]
          /\ Logged(p, "make_tarfile", TRUE)
          /\ UNCHANGED pending
       \/ /\ Fail(p, "make_tarfile")
          /\ UNCHANGED files
    /\ UNCHANGED <<work_dir, image_uri, directory, result_path, error, result,
                   tags, engine_calls, dirs>>

RmtreeKeeps(table, d) == table

(* docker.py:117: shutil.rmtree(directory) *)
RmtreeResult(table, d) == [table EXCEPT ![d] = NoDir]

CleanupSwallows(p) ==
    /\ pc' = [pc EXCEPT ![p] = "open"]
    /\ UNCHANGED error

(* docker.py:116-118: leaving the finally clause re-raises the pending
   exception; without one, result_path is returned to build_docker_image *)
AfterCleanup(p) ==
    IF pending[p] = "none"
    THEN /\ pc' = [pc EXCEPT ![p] = "open"]
         /\ UNCHANGED error
    ELSE Raise(p, pending[p])

(* docker.py:116-118 *)
Rmtree(p) ==
    /\ pc[p] = "rmtree"
    /\ \/ /\ dirs' = RmtreeResult(dirs, directory[p])
          /\ Logged(p, "rmtree", TRUE)
          /\ AfterCleanup(p)
       \/ /\ Raise(p, "rmtree")
          /\ Logged(p, "rmtree", FALSE)
          /\ UNCHANGED dirs
    /\ UNCHANGED <<work_dir, image_uri, directory, result_path, pending, result,
                   tags, engine_calls, files>>

(* docker.py:66 *)
OpenCtx(p) ==
    /\ pc[p] = "open"
    /\ \/ /\ pc' = [pc EXCEPT ![p] = "build"]
          /\ Logged(p, "open", TRUE)
          /\ UNCHANGED error
       \/ /\ Raise(p, "open")
          /\ Logged(p, "open", FALSE)
    /\ UNCHANGED <<work_dir, image_uri, directory, result_path, pending, result,
                   tags, engine_calls, dirs, files>>

ImageOf(tag) == [id |-> <<"sha256:">> \o tag]

(* docker.py:68-76 *)
Build(p) ==
    /\ pc[p] = "build"
    /\ \/ /\ engine_calls' = [engine_calls EXCEPT ![p] = Append(@,
                    [tag |-> image_uri[p],
                     dockerfile |-> EngineDockerfilePath,
                     fileobj |-> files[result_path[p]].content])]
          /\ \/ /\ result' = [result EXCEPT ![p] = ImageOf(image_uri[p])]
                /\ pc' = [pc EXCEPT ![p] = "remove"]
                /\ Logged(p, "build", TRUE)
                /\ UNCHANGED error
             \/ /\ Raise(p, "build")
                /\ Logged(p, "build", FALSE)
                /\ UNCHANGED result
       \/ /\ Raise(p, "from_env")
          /\ Logged(p, "from_env", FALSE)
          /\ UNCHANGED <<engine_calls, result>>
    /\ UNCHANGED <<work_dir, image_uri, directory, result_path, pending, tags, dirs, files>>

RemovePropagates(p) == Raise(p, "remove")

(* docker.py:79-80: except Exception, logged *)
RemoveFailureHandled(p) ==
    /\ pc' = [pc EXCEPT ![p] = "set_tag_uri"]
    /\ UNCHANGED error

(* docker.py:77-80 *)
Remove(p) ==
    /\ pc[p] = "remove"
    /\ \/ /\ files' = [files EXCEPT ![result_path[p]] = NoFile]
          /\ pc' = [pc EXCEPT ![p] = "set_tag_uri"]
          /\ Logged(p, "remove", TRUE)
          /\ UNCHANGED error
       \/ /\ RemoveFailureHandled(p)
          /\ Logged(p, "remove", FALSE)
          /\ UNCHANGED files
    /\ UNCHANGED <<work_dir, image_uri, directory, result_path, pending, result,
                   tags, engine_calls, dirs>>

SkipsSecondTag == "returned"

(* docker.py:82 follows docker.py:81 *)
AfterFirstTag == "set_tag_id"

(* docker.py:81 *)
SetTagUri(p) ==
    /\ pc[p] = "set_tag_uri"
    /\ \/ /\ tags' = [tags EXCEPT ![p] =
                    Append(@, [run_id |-> p, key |-> MLFLOW_DOCKER_IMAGE_URI, value |-> image_uri[p]])]
          /\ pc' = [pc EXCEPT ![p] = AfterFirstTag]
          /\ Logged(p, "set_tag_uri", TRUE)
          /\ UNCHANGED error
       \/ /\ Raise(p, "set_tag")
          /\ Logged(p, "set_tag_uri", FALSE)
          /\ UNCHANGED tags
    /\ UNCHANGED <<work_dir, image_uri, directory, result_path, pending, result,
                   engine_calls, dirs, files>>

(* docker.py:82-83 *)
SetTagId(p) ==
    /\ pc[p] = "set_tag_id"
    /\ \/ /\ tags' = [tags EXCEPT ![p] =
                    Append(@, [run_id |-> p, key |-> MLFLOW_DOCKER_IMAGE_ID, value |-> result[p].id])]
          /\ pc' = [pc EXCEPT ![p] = "returned"]
          /\ Logged(p, "set_tag_id", TRUE)
          /\ UNCHANGED error
       \/ /\ Raise(p, "set_tag")
          /\ Logged(p, "set_tag_id", FALSE)
          /\ UNCHANGED tags
    /\ UNCHANGED <<work_dir, image_uri, directory, result_path, pending, result,
                   engine_calls, dirs, files>>

(* ====================================================================== *)
(* Specifications                                                          *)
(* ====================================================================== *)
TagSpecInit == TagInit /\ TrkIdle /\ BuildIdle
TagNext == DeriveTag /\ UNCHANGED <<trkVars, callVars, fsVars>>
TagSpec == TagSpecInit /\ [][TagNext]_vars

TrkSpecInit == TagIdle /\ TrkInit /\ BuildIdle
TrkNext == TranslateTrackingUri /\ UNCHANGED <<tagVars, callVars, fsVars>>
TrkSpec == TrkSpecInit /\ [][TrkNext]_vars

Others == UNCHANGED <<tagVars, trkVars>>

CtxSpecInit == TagIdle /\ TrkIdle /\ CtxInit
CtxNext ==
    \/ \E p \in Calls : Mkdtemp(p) /\ Others
    \/ \E p \in Calls : Copytree(p) /\ Others
    \/ \E p \in Calls : WriteManifest(p) /\ Others
    \/ \E p \in Calls : Mkstemp(p) /\ Others
    \/ \E p \in Calls : MakeTarfile(p) /\ Others
    \/ \E p \in Calls : Rmtree(p) /\ Others
CtxSpec == CtxSpecInit /\ [][CtxNext]_vars

Init == TagIdle /\ TrkIdle /\ BuildInit
Next ==
    \/ Begin(Builder) /\ Others
    \/ Mkdtemp(Builder) /\ Others
    \/ Copytree(Builder) /\ Others
    \/ WriteManifest(Builder) /\ Others
    \/ Mkstemp(Builder) /\ Others
    \/ MakeTarfile(Builder) /\ Others
    \/ Rmtree(Builder) /\ Others
    \/ OpenCtx(Builder) /\ Others
    \/ Build(Builder) /\ Others
    \/ Remove(Builder) /\ Others
    \/ SetTagUri(Builder) /\ Others
    \/ SetTagId(Builder) /\ Others
Spec == Init /\ [][Next]_vars

(* ====================================================================== *)
(* Properties                                                              *)
(* ====================================================================== *)
Terminal(p) == pc[p] \in {"returned", "raised"}

Did(p, op, ok) == \E i \in 1..Len(log[p]) : log[p][i] = [op |-> op, ok |-> ok]

Attempted(p, op) == \E i \in 1..Len(log[p]) : log[p][i].op = op

Times(p, ops) == Cardinality({i \in 1..Len(log[p]) : log[p][i].op \in ops})

(* control is inside _create_docker_build_ctx *)
InCtx(p) == pc[p] \in {"mkdtemp", "copytree", "write", "mkstemp", "make_tarfile", "rmtree"}

(* _create_docker_build_ctx has returned its result or propagated its error *)
CtxLeft(p) == pc[p] \notin {"idle", "start"} /\ ~InCtx(p)

StagingExists(p) ==
    /\ directory[p] # NoName
    /\ dirs[directory[p]].exists
    /\ dirs[directory[p]].owner = p

ArchiveExists(p) ==
    /\ result_path[p] # NoName
    /\ files[result_path[p]].exists
    /\ files[result_path[p]].owner = p

CtxSteps == {"copytree", "write", "mkstemp", "make_tarfile"}

CtxStepFailed(p) == \E op \in CtxSteps : Did(p, op, FALSE)

(* ---------------------------------------------------------------------- *)
(* C2: the derived tag is the repository URI (the literal docker-project   *)
(* when it is empty), followed by nothing when there is no revision and    *)
(* otherwise by ":" and the first 7 characters of the revision (all of it  *)
(* when shorter); the derivation always returns.                           *)
(* ---------------------------------------------------------------------- *)
C2_Expected ==
    LET prefix == IF repository_uri = <<>>
                  THEN <<"d", "o", "c", "k", "e", "r", "-", "p", "r", "o", "j", "e", "c", "t">>
                  ELSE repository_uri
        n == IF Len(git_commit) < 7 THEN Len(git_commit) ELSE 7
        suffix == IF git_commit = None THEN <<>>
                  ELSE <<":">> \o [i \in 1..n |-> git_commit[i]]
    IN  prefix \o suffix

C2_TagShape ==
    /\ tag_pc = "call" => ENABLED DeriveTag
    /\ tag_pc = "returned" => tag_result = C2_Expected

C2_Witness ==
    /\ tag_pc = "returned"
    /\ repository_uri = <<>>
    /\ git_commit # None
    /\ Len(git_commit) > 7
    /\ Len(tag_result) = 14 + 1 + 7

(* ---------------------------------------------------------------------- *)
(* The shape of a tracking URI, as the claims C3 and C4 divide it          *)
(* ---------------------------------------------------------------------- *)
IsLocalUri(uri) ==
    /\ uri # <<"databricks">>
    /\ urlparse(uri).netloc = <<>>
    /\ urlparse(uri).scheme \in {<<>>, <<"file">>, <<"sqlite">>}

ExpectedMount(uri) ==
    << <<"-v">>, url2pathname(urlparse(uri).path) \o <<":", "/mlflow/tmp/mlruns">> >>

ExpectedRewrite(uri) ==
    IF urlparse(uri).scheme = <<"sqlite">>
    THEN path_to_local_sqlite_uri(<<"/mlflow/tmp/mlruns">>)
    ELSE path_to_local_file_uri(<<"/mlflow/tmp/mlruns">>)

(* ---------------------------------------------------------------------- *)
(* C3 as stated: for a local tracking URI the result has exactly one mount *)
(* pair for the decoded path, and the tracking-URI key of the environment  *)
(* maps to the rewritten URI whatever the credential provider returns.     *)
(* ---------------------------------------------------------------------- *)
C3_AsStated ==
    (trk_pc = "returned" /\ IsLocalUri(tracking_uri)) =>
        /\ cmds = ExpectedMount(tracking_uri)
        /\ "MLFLOW_TRACKING_URI" \in DOMAIN env_vars
        /\ env_vars["MLFLOW_TRACKING_URI"] = ExpectedRewrite(tracking_uri)

(* ---------------------------------------------------------------------- *)
(* C3 amended: for a local tracking URI the result has exactly one mount   *)
(* pair for the decoded path; the tracking-URI key of the environment maps *)
(* to the rewritten URI unless the provider's mapping has that key, and    *)
(* then to the provider's value; every other entry is the provider's.      *)
(* ---------------------------------------------------------------------- *)
C3_LocalMountAndEnv ==
    (trk_pc = "returned" /\ IsLocalUri(tracking_uri)) =>
        /\ cmds = ExpectedMount(tracking_uri)
        /\ DOMAIN env_vars = DOMAIN provider_env \cup {"MLFLOW_TRACKING_URI"}
        /\ \A k \in DOMAIN provider_env : env_vars[k] = provider_env[k]
        /\ "MLFLOW_TRACKING_URI" \notin DOMAIN provider_env =>
                env_vars["MLFLOW_TRACKING_URI"] = ExpectedRewrite(tracking_uri)

C3_Witness ==
    /\ trk_pc = "returned"
    /\ tracking_uri = <<"sqlite", ":", "/", "%20">>
    /\ DOMAIN provider_env = {"DATABRICKS_HOST"}
    /\ cmds = << <<"-v">>, <<"/", " ", ":", "/mlflow/tmp/mlruns">> >>
    /\ env_vars["MLFLOW_TRACKING_URI"] = <<"sqlite", ":", "/", "/", "/", "/mlflow/tmp/mlruns">>

(* ---------------------------------------------------------------------- *)
(* C4: for the literal "databricks", a URI with a network location or a    *)
(* URI with another scheme, there is no mount argument and the environment *)
(* is exactly the provider's mapping.                                      *)
(* ---------------------------------------------------------------------- *)
C4_NonLocalPassThrough ==
    (trk_pc = "returned" /\ ~IsLocalUri(tracking_uri)) =>
        /\ cmds = <<>>
        /\ env_vars = provider_env

C4_Witness ==
    /\ trk_pc = "returned"
    /\ tracking_uri = <<"databricks">>
    /\ DOMAIN provider_env = {"MLFLOW_TRACKING_URI", "DATABRICKS_HOST"}
    /\ cmds = <<>>
    /\ env_vars = provider_env

(* ---------------------------------------------------------------------- *)
(* C1 as stated: once _create_docker_build_ctx has returned or propagated  *)
(* an error, the staging directory it created does not exist.              *)
(* ---------------------------------------------------------------------- *)
C1_AsStated == \A p \in Calls : CtxLeft(p) => ~StagingExists(p)

(* ---------------------------------------------------------------------- *)
(* C1 amended: once _create_docker_build_ctx has returned or propagated an *)
(* error, shutil.rmtree has been applied exactly once to the staging       *)
(* directory it created, whichever of copy, manifest write and archive     *)
(* creation failed; the directory does not exist when that rmtree          *)
(* succeeded, and when it failed its error is the one propagated.          *)
(* ---------------------------------------------------------------------- *)
C1_StagingCleanup ==
    \A p \in Calls :
        (CtxLeft(p) /\ directory[p] # NoName) =>
            /\ Times(p, {"rmtree"}) = 1
            /\ Did(p, "rmtree", TRUE) => ~StagingExists(p)
            /\ Did(p, "rmtree", FALSE) => (pc[p] = "raised" /\ error[p] = "rmtree")

C1_Witness ==
    \E p \in Calls, q \in Calls :
        /\ pc[p] = "raised" /\ error[p] = "make_tarfile"
        /\ Did(p, "rmtree", TRUE) /\ ~StagingExists(p)
        /\ pc[q] = "open" /\ ~StagingExists(q)

(* ---------------------------------------------------------------------- *)
(* C5 as stated: a run in which the engine call succeeded and the archive  *)
(* deletion failed ends with both tags set and the image returned.         *)
(* ---------------------------------------------------------------------- *)
BothTags(p) ==
    tags[p] = << [run_id |-> p, key |-> "mlflow.docker.image.uri", value |-> image_uri[p]],
                 [run_id |-> p, key |-> "mlflow.docker.image.id", value |-> result[p].id] >>

C5_AsStated ==
    \A p \in Calls :
        (Terminal(p) /\ Did(p, "build", TRUE) /\ Did(p, "remove", FALSE)) =>
            (pc[p] = "returned" /\ result[p] # None /\ BothTags(p))

(* ---------------------------------------------------------------------- *)
(* C5 amended: when the engine call succeeded and the archive deletion     *)
(* failed, the deletion failure is never the propagated error: the run     *)
(* goes on to the set_tag calls, and unless a set_tag call itself fails it *)
(* ends with both tags set and the image returned.                         *)
(* ---------------------------------------------------------------------- *)
C5_RemoveFailureNotPropagated ==
    \A p \in Calls :
        (Did(p, "build", TRUE) /\ Did(p, "remove", FALSE)) =>
            /\ pc[p] \in {"set_tag_uri", "set_tag_id", "returned", "raised"}
            /\ error[p] \in {"none", "set_tag"}
            /\ pc[p] = "raised" <=> error[p] = "set_tag"
            /\ Terminal(p) => Attempted(p, "set_tag_uri")
            /\ (Terminal(p) /\ error[p] = "none") =>
                    (pc[p] = "returned" /\ result[p] = ImageOf(image_uri[p]) /\ BothTags(p))

C5_Witness ==
    \E p \in Calls :
        /\ pc[p] = "returned"
        /\ Did(p, "remove", FALSE)
        /\ ArchiveExists(p)
        /\ BothTags(p)

(* ---------------------------------------------------------------------- *)
(* C6 as stated: a finished run has called set_tag exactly twice when the  *)
(* engine call succeeded (URI, then identifier, after the engine call and  *)
(* the deletion attempt) and not at all otherwise.                         *)
(* ---------------------------------------------------------------------- *)
SetTagOps == {"set_tag_uri", "set_tag_id"}

(* the set_tag calls made so far come in the order URI, identifier, and
   after the engine call and the deletion attempt *)
SetTagOrder(p) ==
    \A i \in 1..Len(log[p]) :
        log[p][i].op \in SetTagOps =>
            /\ \E j \in 1..(i - 1) : log[p][j] = [op |-> "build", ok |-> TRUE]
            /\ \E j \in 1..(i - 1) : log[p][j].op = "remove"
            /\ log[p][i].op = "set_tag_id" =>
                    \E j \in 1..(i - 1) : log[p][j] = [op |-> "set_tag_uri", ok |-> TRUE]

C6_AsStated ==
    \A p \in Calls :
        /\ SetTagOrder(p)
        /\ Terminal(p) =>
                Times(p, SetTagOps) = (IF Did(p, "build", TRUE) THEN 2 ELSE 0)

(* ---------------------------------------------------------------------- *)
(* C6 amended: set_tag is called only after a successful engine call and   *)
(* the deletion attempt, first with the image URI and then with the image  *)
(* identifier; a finished run has called it twice when the engine call     *)
(* succeeded and the first set_tag call did not fail, once when the first  *)
(* set_tag call failed, and not at all when context assembly or the engine *)
(* call failed.                                                            *)
(* ---------------------------------------------------------------------- *)
C6_SetTagCalls ==
    \A p \in Calls :
        /\ SetTagOrder(p)
        /\ Times(p, {"set_tag_uri"}) <= 1 /\ Times(p, {"set_tag_id"}) <= 1
        /\ \A i \in 1..Len(tags[p]) :
                tags[p][i] = IF i = 1
                             THEN [run_id |-> p, key |-> "mlflow.docker.image.uri",
                                   value |-> image_uri[p]]
                             ELSE [run_id |-> p, key |-> "mlflow.docker.image.id",
                                   value |-> result[p].id]
        /\ Terminal(p) =>
                Times(p, SetTagOps) =
                    (IF ~Did(p, "build", TRUE) THEN 0
                     ELSE IF Did(p, "set_tag_uri", FALSE) THEN 1 ELSE 2)

C6_Witness ==
    \E p \in Calls :
        /\ pc[p] = "returned"
        /\ Times(p, SetTagOps) = 2
        /\ Len(tags[p]) = 2
        /\ Attempted(p, "remove")

(* ---------------------------------------------------------------------- *)
(* C7: the archive handed to the engine has the root entry                 *)
(* mlflow-project-docker-build-context, holding the entries of the source  *)
(* tree and the manifest Dockerfile.mlflow-autogenerated (which takes the  *)
(* place of a source file of that name); the manifest path passed to the   *)
(* engine and the COPY source of the manifest are entries of the archive.  *)
(* ---------------------------------------------------------------------- *)
C7_Root == "mlflow-project-docker-build-context"

C7_Manifest == "Dockerfile.mlflow-autogenerated"

HoldsDir(p) == pc[p] \in {"copytree", "write", "mkstemp", "make_tarfile", "rmtree"}

HoldsFile(p) ==
    /\ result_path[p] # NoName
    /\ pc[p] \in {"make_tarfile", "rmtree", "open", "build", "remove"}

C8_Distinct ==
    \A p \in Calls, q \in Calls :
        p # q =>
            /\ (HoldsDir(p) /\ HoldsDir(q)) => directory[p] # directory[q]
            /\ (HoldsFile(p) /\ HoldsFile(q)) => result_path[p] # result_path[q]
            /\ HoldsDir(p) => (dirs[directory[p]].exists /\ dirs[directory[p]].owner = p)
            /\ HoldsFile(p) => (files[result_path[p]].exists /\ files[result_path[p]].owner = p)

C8_OwnArchive ==
    \A p \in Calls :
        pc[p] = "open" =>
            files[result_path[p]].content =
                make_tarfile(WithManifest(SourceTree(work_dir[p]),
                                          Dockerfile(BaseImageOf(work_dir[p]))),
                             "mlflow-project-docker-build-context")

C8_Untouched ==
    \A p \in Calls :
        pc'[p] = pc[p] =>
            /\ HoldsDir(p) => dirs'[directory[p]] = dirs[directory[p]]
            /\ HoldsFile(p) => files'[result_path[p]] = files[result_path[p]]

C8_Isolation == [](C8_Distinct /\ C8_OwnArchive) /\ [][C8_Untouched]_vars

C8_Witness ==
    \E p \in Calls, q \in Calls :
        /\ p # q
        /\ work_dir[p] # work_dir[q]
        /\ pc[p] = "open"
        /\ pc[q] = "rmtree" /\ pending[q] = "none"
        /\ dirs[directory[q]].exists

(* ---------------------------------------------------------------------- *)
(* C9 as stated: after a failed copy the manifest is not written and no    *)
(* archive file is made; after a failure of copy, manifest write or        *)
(* archive creation the run ends with that error propagated, the staging   *)
(* directory removed, the engine never invoked and no step run twice.      *)
(* ---------------------------------------------------------------------- *)
NoRetry(p) ==
    \A i \in 1..Len(log[p]), j \in 1..Len(log[p]) : log[p][i].op = log[p][j].op => i = j

StopsAtCopyFailure(p) ==
    Did(p, "copytree", FALSE) =>
        /\ ~Attempted(p, "write")
        /\ ~Attempted(p, "mkstemp")
        /\ result_path[p] = NoName
        /\ \A f \in TmpNames : ~(files[f].exists /\ files[f].owner = p)

EngineNeverInvoked(p) ==
    /\ engine_calls[p] = <<>>
    /\ ~Attempted(p, "open") /\ ~Attempted(p, "from_env") /\ ~Attempted(p, "build")

C9_AsStated ==
    \A p \in Calls :
        /\ NoRetry(p)
        /\ StopsAtCopyFailure(p)
        /\ CtxStepFailed(p) =>
                /\ pc[p] \in {"rmtree", "raised"}
                /\ EngineNeverInvoked(p)
                /\ pc[p] = "raised" => (error[p] \in CtxSteps /\ Did(p, error[p], FALSE)
                                        /\ ~StagingExists(p))

(* ---------------------------------------------------------------------- *)
(* C9 amended: after a failed copy the manifest is not written and no      *)
(* archive file is made; after a failure of copy, manifest write or        *)
(* archive creation the removal of the staging directory is attempted      *)
(* once, the engine is never invoked and no step is run twice; the run     *)
(* ends with the failed step's error propagated and the staging directory  *)
(* removed when that removal succeeded, and with the removal's own error   *)
(* propagated when it failed.                                              *)
(* ---------------------------------------------------------------------- *)
C9_FailFast ==
    \A p \in Calls :
        /\ NoRetry(p)
        /\ StopsAtCopyFailure(p)
        /\ CtxStepFailed(p) =>
                /\ pc[p] \in {"rmtree", "raised"}
                /\ EngineNeverInvoked(p)
                /\ pc[p] = "raised" =>
                        /\ Attempted(p, "rmtree")
                        /\ Did(p, "rmtree", TRUE) =>
                                (error[p] \in CtxSteps /\ Did(p, error[p], FALSE)
                                 /\ ~StagingExists(p))
                        /\ Did(p, "rmtree", FALSE) => error[p] = "rmtree"

C9_Witness ==
    \E p \in Calls :
        /\ pc[p] = "raised" /\ error[p] = "copytree"
        /\ Did(p, "rmtree", TRUE) /\ ~StagingExists(p)
        /\ Len(log[p]) = 3

(* ---------------------------------------------------------------------- *)
(* C10 as stated: when a run of build_docker_image that made an archive    *)
(* file has ended, the file has been deleted or its deletion attempted.    *)
(* ---------------------------------------------------------------------- *)
C10_ArchiveNotLeaked ==
    \A p \in Calls :
        (Terminal(p) /\ Did(p, "mkstemp", TRUE)) =>
            (~ArchiveExists(p) \/ Attempted(p, "remove"))

====
